---- MODULE Spec2Model ----
\* Client-side conversation session coordinator of claudable:
\*   ConversationMonitor         (stats polling, periodic timer)
\*   ConversationHistoryTab      (providers snapshot, ClearOne / ClearAll)
\*   SessionContinuityManager    (one-shot restoration flow and banner)
\*   ConversationStatusIndicator (per-provider summary chip with clear button)
\* Every async function is cut at its awaits: the synchronous prefix of a
\* handler is one action, the continuation that runs when the awaited
\* response settles is another.
EXTENDS Integers, Sequences, FiniteSets, TLC

\* ------------------------------------------------------------------ bounds
MaxInFlight == 2      \* requests of one component that may be outstanding
MaxHandles  == 2      \* interval handles one run hands out
MaxMsgs     == 2      \* largest total_messages the service reports
MaxTimeouts == 1      \* status timeouts that may be pending
MaxBanners  == 2      \* banner timeouts that may be pending

\* ------------------------------------------------------------ input domains
NoProject   == ""
Projects    == {"p1", "p2"}
MonProjects == Projects \cup {NoProject}
\* project identifiers are interchangeable: a view that is opened once is
\* opened on the first
FirstProject == "p1"

\* Outcomes of a fetch as seen by the awaiting function.
\*   ok       2xx, body parses and has the expected shape
\*   noField  2xx, body parses, expected field missing
\*   badJson  2xx, response.json() rejects
\*   non2xx   response.ok is false
\*   netError fetch() rejects
Outcomes     == {"ok", "noField", "badJson", "non2xx", "netError"}
FailOutcomes == {"non2xx", "netError"}

VARIABLES
    \* ConversationMonitor
    monMounted,       \* a component instance exists
    monProjectId,     \* prop projectId
    stats,            \* useState<ConversationStats[]>
    refreshInterval,  \* useState<Timeout | null>, 0 is null
    monTimers,        \* interval timers by handle (handle = index)
    monCleanup,       \* handle held by the pending effect cleanup, 0 if none
    monFetches,       \* outstanding stats requests, in issuance order
    \* ConversationHistoryTab
    histMounted,      \* a component instance exists
    histProjectId,    \* prop projectId
    providersInfo,    \* useState<Record<string, ProviderInfo>>, entries in key order
    histIsLoading,    \* useState(false)
    clearingProvider, \* useState<string | null>, "" is null
    actionStatus,     \* 'idle' | 'success' | 'error'
    histReqs,         \* outstanding requests of the tab, in issuance order
    histTimeouts,     \* pending setTimeout(() => setActionStatus('idle'), ms)
    histFetched,      \* a loadProvidersInfo() of this instance has settled
    \* SessionContinuityManager
    scmMounted,       \* a component instance exists
    scmProjectId,     \* prop projectId
    sessionInfo,      \* useState<SessionInfo | null>
    scmIsLoading,     \* useState(true)
    showStatus,       \* useState(false)
    statusMessage,    \* useState('')
    scmReqs,          \* outstanding providers requests, in issuance order
    scmTimeouts,      \* pending setTimeout(() => setShowStatus(false), 3000)
    restoreCalls,     \* arguments of the onSessionRestore calls of the last step
    loadedCalls,      \* arguments of the onConversationLoaded calls of the last step
    restoreBody,      \* body the last step processed
    \* ConversationStatusIndicator
    indMounted,       \* a component instance exists
    indProjectId,     \* prop projectId
    activeProvider,   \* prop activeProvider, "" is undefined
    summary,          \* useState<ConversationSummary | null>
    indIsVisible,     \* useState(false)
    indReqs,          \* outstanding requests of the indicator, in issuance order
    \* key-configuration wizard
    wizPc,            \* position of main(): the question it awaits, "idle" or "done"
    envFile,          \* the .env file, as the sequence of its lines
    envAtStart,       \* the .env file as it was when main() started
    existingEnv,      \* const existingEnv = readExistingEnv(), entries in key order
    answers,          \* deepseekKey, qwenKey, kimiKey, doubaoKey so far
    \* bookkeeping of the step just taken
    last

monVars == <<monMounted, monProjectId, stats, refreshInterval, monTimers,
             monCleanup, monFetches>>
histVars == <<histMounted, histProjectId, providersInfo, histIsLoading,
              clearingProvider, actionStatus, histReqs, histTimeouts, histFetched>>
scmVars == <<scmMounted, scmProjectId, sessionInfo, scmIsLoading, showStatus,
             statusMessage, scmReqs, scmTimeouts, restoreCalls, loadedCalls,
             restoreBody>>
indVars == <<indMounted, indProjectId, activeProvider, summary, indIsVisible, indReqs>>
wizVars == <<wizPc, envFile, envAtStart, existingEnv, answers>>
vars == <<monVars, histVars, scmVars, indVars, wizVars, last>>

\* ------------------------------------------------------------------ helpers
RemoveAt(s, i) == [j \in 1..(Len(s) - 1) |-> IF j < i THEN s[j] ELSE s[j + 1]]

\* The step record: which handler ran, on which response, what it sent and
\* whether it called the setter of the component's snapshot; bodyActive tells
\* whether the body just answered lists the step's target as active.
NoStep ==
    [comp |-> "none", op |-> "init", outcome |-> "none", stale |-> FALSE,
     reqProj |-> NoProject, viewProj |-> NoProject, wrote |-> FALSE,
     sent |-> "none", target |-> "", confirm |-> "none", named |-> <<>>,
     alert |-> FALSE, logged |-> FALSE, bodyActive |-> FALSE]
UserStep(comp, op, proj) ==
    [NoStep EXCEPT !.comp = comp, !.op = op, !.reqProj = proj, !.viewProj = proj]
Step(comp, op, outcome, stale, reqProj, viewProj, wrote) ==
    [NoStep EXCEPT !.comp = comp, !.op = op, !.outcome = outcome, !.stale = stale,
                   !.reqProj = reqProj, !.viewProj = viewProj, !.wrote = wrote]

\* ------------------------------------------------------ ConversationMonitor
StatsOrder  == <<"deepseek", "qwen">>
UsageValues == {40, 80, 120}
\* what the service reports of one provider: no conversation, or one at some
\* usage. `active` is the flag the service keeps of the provider's session, the
\* one GET /providers reports; interface ConversationStats declares no such
\* field and the monitor never reads it.
StatsInfos(k) ==
    IF k = StatsOrder[1]
    THEN {[total_messages |-> 0, usage_percentage |-> 0, active |-> FALSE],
          [total_messages |-> MaxMsgs, usage_percentage |-> 80, active |-> FALSE]}
         \cup {[total_messages |-> MaxMsgs, usage_percentage |-> u, active |-> TRUE]
                  : u \in UsageValues}
    ELSE {[total_messages |-> MaxMsgs, usage_percentage |-> 80, active |-> TRUE]}
\* data.providers of a well-formed stats body: at most one entry per provider
StatsBodies ==
    UNION {{[i \in 1..Len(SelectSeq(StatsOrder, LAMBDA k : k \in K)) |->
               [provider |-> SelectSeq(StatsOrder, LAMBDA k : k \in K)[i],
                total_messages |-> f[SelectSeq(StatsOrder, LAMBDA k : k \in K)[i]].total_messages,
                usage_percentage |-> f[SelectSeq(StatsOrder, LAMBDA k : k \in K)[i]].usage_percentage,
                active |-> f[SelectSeq(StatsOrder, LAMBDA k : k \in K)[i]].active]]
            : f \in {g \in [K -> UNION {StatsInfos(k) : k \in K}] :
                        \A k \in K : g[k] \in StatsInfos(k)}}
           : K \in SUBSET {StatsOrder[i] : i \in DOMAIN StatsOrder}}

\* setInterval: a new handle, active, bound to the closure of this render
SetInterval(timers, proj) ==
    Append(timers, [proj |-> proj, state |-> "active", clears |-> 0])
\* clearInterval(h)
ClearInterval(timers, h) ==
    [timers EXCEPT ![h] = [@ EXCEPT !.state = "cleared", !.clears = @ + 1]]

\* mutant: the effect returns no cleanup
MonEffectCleanupMissing(timers, h) == timers
\* the cleanup returned by the effect: if (interval) clearInterval(interval)
MonEffectCleanup(timers, h) ==
    IF h # 0 THEN ClearInterval(timers, h) ELSE timers

\* a stats request issued by loadConversationStats of the render for proj
StatsRequest(proj) == [proj |-> proj, stale |-> FALSE]

\* body of useEffect(..., [projectId]) run for proj after `timers` were cleaned
MonEffect(proj, timers) ==
    IF proj # NoProject
    THEN /\ monFetches' = Append(monFetches, StatsRequest(proj))
         /\ monTimers' = SetInterval(timers, proj)
         /\ monCleanup' = Len(timers) + 1
         /\ refreshInterval' = Len(timers) + 1
    ELSE /\ monFetches' = monFetches
         /\ monTimers' = timers
         /\ monCleanup' = 0
         /\ refreshInterval' = refreshInterval

MonRoom(proj) ==
    proj # NoProject =>
        /\ Len(monFetches) < MaxInFlight
        /\ Len(monTimers) < MaxHandles

MonMount(proj) ==
    /\ ~monMounted
    /\ MonRoom(proj)
    /\ monMounted' = TRUE
    /\ monProjectId' = proj
    /\ stats' = <<>>
    /\ MonEffect(proj, monTimers)
    /\ UNCHANGED <<histVars, scmVars, indVars, wizVars>>
    /\ last' = [UserStep("monitor", "mount", proj) EXCEPT
                    !.sent = IF proj # NoProject THEN "stats" ELSE "none"]

MonSetProject(proj) ==
    /\ monMounted
    /\ proj # monProjectId
    /\ MonRoom(proj)
    /\ monProjectId' = proj
    /\ MonEffect(proj, MonEffectCleanup(monTimers, monCleanup))
    /\ UNCHANGED <<monMounted, stats>>
    /\ UNCHANGED <<histVars, scmVars, indVars, wizVars>>
    /\ last' = [UserStep("monitor", "setProject", proj) EXCEPT
                    !.sent = IF proj # NoProject THEN "stats" ELSE "none"]

\* Unmount runs the cleanup and destroys the instance. The continuations of
\* its outstanding requests can only call setters of the destroyed instance,
\* which reach no state: the requests are dropped here.
MonUnmount ==
    /\ monMounted
    /\ monMounted' = FALSE
    /\ monTimers' = MonEffectCleanup(monTimers, monCleanup)
    /\ monCleanup' = 0
    /\ refreshInterval' = 0
    /\ stats' = <<>>
    /\ monFetches' = <<>>
    /\ UNCHANGED monProjectId
    /\ UNCHANGED <<histVars, scmVars, indVars, wizVars>>
    /\ last' = UserStep("monitor", "unmount", monProjectId)

\* mutant: a tick that finds a request outstanding returns without fetching
MonTickSkipsWhenBusy(h) ==
    /\ h \in DOMAIN monTimers
    /\ monTimers[h].state = "active"
    /\ Len(monFetches) < MaxInFlight
    /\ monFetches' = IF monFetches = <<>>
                      THEN Append(monFetches, StatsRequest(monTimers[h].proj))
                      ELSE monFetches
    /\ UNCHANGED <<monMounted, monProjectId, stats, refreshInterval, monTimers, monCleanup>>
    /\ UNCHANGED <<histVars, scmVars, indVars, wizVars>>
    /\ last' = [UserStep("monitor", "tick", monTimers[h].proj) EXCEPT
                    !.sent = IF monFetches = <<>> THEN "stats" ELSE "none"]
\* the interval fires: loadConversationStats() up to its await
MonTick(h) ==
    /\ h \in DOMAIN monTimers
    /\ monTimers[h].state = "active"
    /\ Len(monFetches) < MaxInFlight
    /\ monFetches' = Append(monFetches, StatsRequest(monTimers[h].proj))
    /\ UNCHANGED <<monMounted, monProjectId, stats, refreshInterval, monTimers, monCleanup>>
    /\ UNCHANGED <<histVars, scmVars, indVars, wizVars>>
    /\ last' = [UserStep("monitor", "tick", monTimers[h].proj) EXCEPT !.sent = "stats"]

\* mutant: setStats moved out of the if (response.ok) block
MonCallsSetStatsUnchecked(outcome) == outcome \in {"ok", "noField", "non2xx"}
\* what loadConversationStats passes to setStats, given the outcome
MonCallsSetStats(outcome) == outcome \in {"ok", "noField"}
\* mutant: usage_percentage is capped at 100 before it is stored
MonNewStatsClamped(outcome, body) ==
    IF outcome = "ok"
    THEN [i \in DOMAIN body |->
            [body[i] EXCEPT !.usage_percentage = IF @ > 100 THEN 100 ELSE @]]
    ELSE <<>>
MonNewStats(outcome, body) == IF outcome = "ok" THEN body ELSE <<>>

\* the catch block: console.error
MonLogs(outcome) == outcome \in {"netError", "badJson"}

\* requests issued before request i are older than what is now stored
MarkOlder(fetches, i) ==
    [j \in DOMAIN fetches |-> IF j < i THEN [fetches[j] EXCEPT !.stale = TRUE] ELSE fetches[j]]

\* the response of request i settles: rest of loadConversationStats
MonResponse(i, outcome, body) ==
    /\ i \in DOMAIN monFetches
    /\ LET r == monFetches[i]
           writes == monMounted /\ MonCallsSetStats(outcome)
       IN /\ stats' = IF writes THEN MonNewStats(outcome, body) ELSE stats
          /\ monFetches' = RemoveAt(IF writes THEN MarkOlder(monFetches, i) ELSE monFetches, i)
          /\ last' = [Step("monitor", "response", outcome, r.stale, r.proj,
                           IF monMounted THEN monProjectId ELSE "gone", writes)
                         EXCEPT !.logged = MonLogs(outcome)]
    /\ UNCHANGED <<monMounted, monProjectId, refreshInterval, monTimers, monCleanup>>
    /\ UNCHANGED <<histVars, scmVars, indVars, wizVars>>

\* Overview, "Active Models": stats.filter(s => s.total_messages > 0).length
ActiveModels(s) == Len(SelectSeq(s, LAMBDA e : e.total_messages > 0))

\* Overview, "Max Usage": Math.max(...stats.map(s => s.usage_percentage));
\* Math.max() of no argument is -Infinity
NegInfinity == -1
RECURSIVE MathMax(_)
MathMax(nums) ==
    IF nums = <<>> THEN NegInfinity
    ELSE LET rest == MathMax(Tail(nums))
         IN IF Head(nums) > rest THEN Head(nums) ELSE rest
MaxUsage(s) == MathMax([i \in DOMAIN s |-> s[i].usage_percentage])
\* progress bar: width: Math.min(stat.usage_percentage, 100) %
BarWidth(e) == IF e.usage_percentage < 100 THEN e.usage_percentage ELSE 100

\* getUsageColor(percentage): the text class of the percentage
getUsageColor(percentage) ==
    IF percentage < 50 THEN "text-green-600"
    ELSE IF percentage < 80 THEN "text-yellow-600"
    ELSE "text-red-600"
\* getUsageBarColor(percentage): the class of the progress bar
getUsageBarColor(percentage) ==
    IF percentage < 50 THEN "bg-green-500"
    ELSE IF percentage < 80 THEN "bg-yellow-500"
    ELSE "bg-red-500"
\* stats.some(s => s.usage_percentage > 80): the high-usage tip is rendered
WarningShown(s) == \E i \in DOMAIN s : s[i].usage_percentage > 80
MonNext ==
    \/ \E p \in MonProjects : MonMount(p)
    \/ \E p \in MonProjects : MonSetProject(p)
    \/ MonUnmount
    \/ \E h \in 1..MaxHandles : MonTick(h)
    \/ \E i \in 1..MaxInFlight, o \in Outcomes :
         \E b \in (IF o = "ok" THEN StatsBodies ELSE {<<>>}) : MonResponse(i, o, b)


\* --------------------------------------------------- ConversationHistoryTab
PROVIDERS ==
    <<[id |-> "deepseek", name |-> "DeepSeek"],
      [id |-> "qwen",     name |-> "Qwen"],
      [id |-> "kimi",     name |-> "Kimi"],
      [id |-> "doubao",   name |-> "Doubao"]>>
ProviderIds == {PROVIDERS[i].id : i \in DOMAIN PROVIDERS}

\* PROVIDERS.find(p => p.id === provider)?.name
Undefined == "undefined"
FindName(provider) ==
    IF provider \in ProviderIds
    THEN (CHOOSE e \in {PROVIDERS[i] : i \in DOMAIN PROVIDERS} : e.id = provider).name
    ELSE Undefined

\* Bodies of GET /providers: one entry per key, in the order the service
\* writes the keys (Object.entries order).
KeyOrder == <<"deepseek", "qwen", "custom">>
KeysOf(K) == SelectSeq(KeyOrder, LAMBDA k : k \in K)
Summary(null, n) == [isNull |-> null, total_messages |-> n]
AllKeys == {KeyOrder[i] : i \in DOMAIN KeyOrder}
AllKeySets == SUBSET AllKeys
ProviderBodies(Infos, KeySets) ==
    UNION {{[i \in 1..Len(KeysOf(K)) |->
               [provider |-> KeysOf(K)[i],
                active   |-> f[KeysOf(K)[i]].active,
                summary  |-> f[KeysOf(K)[i]].summary]]
            : f \in {g \in [K -> UNION {Infos[k] : k \in K}] : \A k \in K : g[k] \in Infos[k]}}
           : K \in KeySets}

Inactive  == [active |-> FALSE, summary |-> Summary(FALSE, 0)]
Active(n) == [active |-> TRUE, summary |-> Summary(FALSE, n)]
\* what the tab is shown of each key: the first registered provider with or
\* without a conversation, the others with one when they are present
HistInfos(k) == IF k = KeyOrder[1] THEN {Inactive, Active(MaxMsgs)} ELSE {Active(MaxMsgs)}
HistKeySets == {{}, {KeyOrder[1]}, {KeyOrder[1], KeyOrder[2]}, {KeyOrder[1], KeyOrder[3]}}
HistBodies == ProviderBodies([k \in AllKeys |-> HistInfos(k)], HistKeySets)

\* providersInfo[id]?.active
InfoActive(info, id) == \E i \in DOMAIN info : info[i].provider = id /\ info[i].active
\* Object.values(providersInfo).every(info => !info.active)
NoneActive(info) == \A i \in DOMAIN info : ~info[i].active

\* requests of the tab; the load awaited by clearConversationHistory(provider)
\* carries that provider
HistReq(kind, proj, provider, cont) ==
    [kind |-> kind, proj |-> proj, provider |-> provider, cont |-> cont]
LoadReq(proj, cont) == HistReq("load", proj, "", cont)

Mutations(reqs) == {i \in DOMAIN reqs : reqs[i].kind \in {"delete", "reset"}}

HistRoom == Len(histReqs) < MaxInFlight
TimeoutRoom == Len(histTimeouts) < MaxTimeouts

\* loadProvidersInfo() up to its await, called from an effect or the button
HistStartLoad(proj) ==
    /\ histIsLoading' = TRUE
    /\ histReqs' = Append(histReqs, LoadReq(proj, "none"))
    /\ UNCHANGED <<providersInfo, clearingProvider, actionStatus, histTimeouts,
                   histFetched>>

HistMount(proj) ==
    /\ ~histMounted
    /\ HistRoom
    /\ histMounted' = TRUE
    /\ histProjectId' = proj
    /\ providersInfo' = <<>>
    /\ clearingProvider' = ""
    /\ actionStatus' = "idle"
    /\ histIsLoading' = TRUE
    /\ histReqs' = Append(histReqs, LoadReq(proj, "none"))
    /\ histFetched' = FALSE
    /\ UNCHANGED histTimeouts
    /\ UNCHANGED <<monVars, scmVars, indVars, wizVars>>
    /\ last' = [UserStep("history", "mount", proj) EXCEPT !.sent = "load"]

HistSetProject(proj) ==
    /\ histMounted
    /\ proj # histProjectId
    /\ HistRoom
    /\ histProjectId' = proj
    /\ HistStartLoad(proj)
    /\ UNCHANGED histMounted
    /\ UNCHANGED <<monVars, scmVars, indVars, wizVars>>
    /\ last' = [UserStep("history", "setProject", proj) EXCEPT !.sent = "load"]

\* Refresh button, disabled={isLoading}
RefreshEnabled == histMounted /\ ~histIsLoading
HistRefresh ==
    /\ RefreshEnabled
    /\ HistRoom
    /\ HistStartLoad(histProjectId)
    /\ UNCHANGED <<histMounted, histProjectId>>
    /\ UNCHANGED <<monVars, scmVars, indVars, wizVars>>
    /\ last' = [UserStep("history", "refresh", histProjectId) EXCEPT !.sent = "load"]

\* mutant: the row button does not look at info?.active
ClearOneEnabledAnyRow(id) ==
    /\ histMounted
    /\ id \in ProviderIds
    /\ ~(histIsLoading \/ clearingProvider = id)
\* Clear History button of a row, disabled={isLoading || isClearing || !info?.active}
ClearOneEnabled(id) ==
    /\ histMounted
    /\ id \in ProviderIds
    /\ ~(histIsLoading \/ clearingProvider = id \/ ~InfoActive(providersInfo, id))

\* clearConversationHistory(provider) up to its await
HistClearOne(id, accept) ==
    /\ ClearOneEnabled(id)
    /\ IF accept
       THEN /\ HistRoom
            /\ clearingProvider' = id
            /\ histReqs' = Append(histReqs, HistReq("delete", histProjectId, id, "none"))
       ELSE UNCHANGED <<clearingProvider, histReqs>>
    /\ UNCHANGED <<histMounted, histProjectId, providersInfo, histIsLoading,
                   actionStatus, histTimeouts, histFetched>>
    /\ UNCHANGED <<monVars, scmVars, indVars, wizVars>>
    /\ last' = [UserStep("history", "clearOne", histProjectId) EXCEPT
                    !.target = id,
                    !.confirm = IF accept THEN "accepted" ELSE "declined",
                    !.named = <<FindName(id)>>,
                    !.sent = IF accept THEN "delete" ELSE "none"]

\* mutant: the button carries no disabled condition
ClearAllEnabledAlways == histMounted
\* Clear All History button, disabled={isLoading || every(info => !info.active)}
ClearAllEnabled == histMounted /\ ~(histIsLoading \/ NoneActive(providersInfo))

\* mutant: the .filter(([_, info]) => info.active) is dropped
ActiveNamesOfAll(info) ==
    SelectSeq([i \in DOMAIN info |-> FindName(info[i].provider)], LAMBDA n : n # Undefined)
\* the names resetAllConversations puts in its prompt
ActiveNames(info) ==
    LET act   == SelectSeq(info, LAMBDA e : e.active)
        names == [i \in DOMAIN act |-> FindName(act[i].provider)]
    IN SelectSeq(names, LAMBDA n : n # Undefined)

\* resetAllConversations() up to its await
ResetAllHandler(accept) ==
    /\ LET activeProviders == ActiveNames(providersInfo)
           nothing == Len(activeProviders) = 0
           sends   == ~nothing /\ accept
       IN /\ IF sends
             THEN /\ HistRoom
                  /\ histIsLoading' = TRUE
                  /\ histReqs' = Append(histReqs, HistReq("reset", histProjectId, "", "none"))
             ELSE UNCHANGED <<histIsLoading, histReqs>>
          /\ last' = [UserStep("history", "clearAll", histProjectId) EXCEPT
                          !.alert = nothing,
                          !.confirm = IF nothing THEN "none"
                                      ELSE IF accept THEN "accepted" ELSE "declined",
                          !.named = activeProviders,
                          !.sent = IF sends THEN "reset" ELSE "none"]
    /\ UNCHANGED <<histMounted, histProjectId, providersInfo, clearingProvider,
                   actionStatus, histTimeouts, histFetched>>
    /\ UNCHANGED <<monVars, scmVars, indVars, wizVars>>

\* a click on the enabled Clear All History button
HistClearAll(accept) == ClearAllEnabled /\ ResetAllHandler(accept)

\* resetAllConversations() called while the snapshot has no active provider;
\* the button is disabled then, the function tests for it itself (lines 91-94)
HistCallClearAll(accept) ==
    /\ histMounted
    /\ NoneActive(providersInfo)
    /\ ResetAllHandler(accept)

SuccessMs == 2000
FailureMs == 3000
Timeout(ms) == [ms |-> ms]

\* mutant: setProvidersInfo is called whatever the status of the response
HistLoadWritesUnchecked(outcome) == outcome \in {"ok", "non2xx"}
\* if (response.ok) of loadProvidersInfo: the body is stored
HistLoadWrites(outcome) == outcome = "ok"
\* mutant: the body is merged into the snapshot, entries it lacks are kept
HistNewInfoMerged(body, info) ==
    body \o SelectSeq(info, LAMBDA e : \A j \in DOMAIN body : body[j].provider # e.provider)
\* setProvidersInfo(data): the body replaces the snapshot
HistNewInfo(body, info) == body
\* mutant: the response status is not looked at
DeleteOkUnchecked(outcome) == outcome \in {"ok", "non2xx"}
\* if (response.ok) of clearConversationHistory
DeleteOk(outcome) == outcome = "ok"
\* mutant: the response status is not looked at
ResetOkUnchecked(outcome) == outcome \in {"ok", "non2xx"}
\* if (response.ok) of resetAllConversations, then await response.json()
ResetOk(outcome) == outcome = "ok"

\* the awaited loadProvidersInfo() of request i settles, and with it the rest
\* of the mutation that awaited it (r.cont)
HistLoadDone(i, outcome, body) ==
    LET r == histReqs[i]
        writes == HistLoadWrites(outcome)
    IN /\ r.kind = "load"
       /\ outcome \in {"ok", "badJson", "non2xx", "netError"}
       /\ r.cont # "none" => TimeoutRoom
       /\ providersInfo' = IF writes THEN HistNewInfo(body, providersInfo) ELSE providersInfo
       /\ histIsLoading' = FALSE
       /\ clearingProvider' = IF r.cont = "clearOne"
                              THEN ""
                              ELSE clearingProvider
       /\ histTimeouts' = IF r.cont # "none"
                          THEN Append(histTimeouts, Timeout(SuccessMs))
                          ELSE histTimeouts
       /\ histReqs' = RemoveAt(histReqs, i)
       /\ histFetched' = TRUE
       /\ UNCHANGED actionStatus
       /\ last' = [Step("history", "loadDone", outcome, FALSE, r.proj,
                        histProjectId, writes)
                     EXCEPT !.target = r.provider,
                            !.bodyActive = InfoActive(body, r.provider),
                            !.logged = outcome # "ok"]

\* the DELETE /history request i settles: rest of clearConversationHistory up
\* to its next await (success) or to its end (failure)
HistDeleteDone(i, outcome) ==
    LET r == histReqs[i]
    IN /\ r.kind = "delete"
       /\ outcome \in {"ok", "non2xx", "netError"}
       /\ IF DeleteOk(outcome)
          THEN /\ actionStatus' = "success"
               /\ histIsLoading' = TRUE
               /\ histReqs' = Append(RemoveAt(histReqs, i),
                                      HistReq("load", r.proj, r.provider, "clearOne"))
               /\ UNCHANGED <<clearingProvider, histTimeouts>>
          ELSE /\ TimeoutRoom
               /\ actionStatus' = "error"
               /\ histTimeouts' = Append(histTimeouts, Timeout(FailureMs))
               /\ clearingProvider' = ""
               /\ histReqs' = RemoveAt(histReqs, i)
               /\ UNCHANGED histIsLoading
       /\ UNCHANGED <<providersInfo, histFetched>>
       /\ last' = [Step("history", "deleteDone", outcome, FALSE, r.proj,
                        histProjectId, FALSE)
                     EXCEPT !.target = r.provider,
                            !.sent = IF DeleteOk(outcome) THEN "load" ELSE "none",
                            !.logged = outcome = "netError"]

\* the POST /reset-all request i settles: rest of resetAllConversations up to
\* its next await (success) or to its end (failure); a 2xx body that does not
\* parse makes `await response.json()` throw into the catch block
HistResetDone(i, outcome) ==
    LET r == histReqs[i]
    IN /\ r.kind = "reset"
       /\ outcome \in {"ok", "badJson", "non2xx", "netError"}
       /\ IF ResetOk(outcome)
          THEN /\ actionStatus' = "success"
               /\ histIsLoading' = TRUE
               /\ histReqs' = Append(RemoveAt(histReqs, i), LoadReq(r.proj, "resetAll"))
               /\ UNCHANGED histTimeouts
          ELSE /\ TimeoutRoom
               /\ actionStatus' = "error"
               /\ histTimeouts' = Append(histTimeouts, Timeout(FailureMs))
               /\ histIsLoading' = FALSE
               /\ histReqs' = RemoveAt(histReqs, i)
       /\ UNCHANGED <<providersInfo, clearingProvider, histFetched>>
       /\ last' = [Step("history", "resetDone", outcome, FALSE, r.proj,
                        histProjectId, FALSE)
                     EXCEPT !.sent = IF ResetOk(outcome) THEN "load" ELSE "none",
                            !.logged = outcome \in {"netError", "badJson"}]

HistResponse(i, outcome, body) ==
    /\ i \in DOMAIN histReqs
    /\ \/ HistLoadDone(i, outcome, body)
       \/ body = <<>> /\ HistDeleteDone(i, outcome)
       \/ body = <<>> /\ HistResetDone(i, outcome)
    /\ UNCHANGED <<histMounted, histProjectId>>
    /\ UNCHANGED <<monVars, scmVars, indVars, wizVars>>

\* mutant: the callback of the status timeout sets nothing
HistTimeoutFiresKeepsStatus(k) ==
    /\ k \in DOMAIN histTimeouts
    /\ histTimeouts' = RemoveAt(histTimeouts, k)
    /\ UNCHANGED <<histMounted, histProjectId, providersInfo, histIsLoading,
                   clearingProvider, actionStatus, histReqs, histFetched>>
    /\ UNCHANGED <<monVars, scmVars, indVars, wizVars>>
    /\ last' = UserStep("history", "timeout", histProjectId)
\* a status timeout fires: setActionStatus('idle')
HistTimeoutFires(k) ==
    /\ k \in DOMAIN histTimeouts
    /\ actionStatus' = "idle"
    /\ histTimeouts' = RemoveAt(histTimeouts, k)
    /\ UNCHANGED <<histMounted, histProjectId, providersInfo, histIsLoading,
                   clearingProvider, histReqs, histFetched>>
    /\ UNCHANGED <<monVars, scmVars, indVars, wizVars>>
    /\ last' = UserStep("history", "timeout", histProjectId)

\* A 2xx body of GET /providers in which the entry of a key is null.
NullEntry(k) == [provider |-> k, entryNull |-> TRUE]
NullBodies ==
    {<<NullEntry(KeyOrder[1])>>,
     <<[provider |-> KeyOrder[1], active |-> FALSE, summary |-> Summary(FALSE, 0)],
       NullEntry(KeyOrder[2])>>}
\* Object.values(providersInfo).every(info => !info.active) of the render:
\* every() stops at the first active entry; reading .active of a null entry
\* it reaches throws a TypeError
RenderThrows(info) ==
    \E i \in DOMAIN info :
       /\ "entryNull" \in DOMAIN info[i]
       /\ \A j \in 1..(i - 1) : "entryNull" \notin DOMAIN info[j] /\ ~info[j].active
\* loadProvidersInfo() receives such a body: setProvidersInfo(data) and
\* setIsLoading(false) run, the render that follows throws outside every
\* try block and React unmounts the tree; what was pending finds no instance.
HistLoadDoneNull(i, body) ==
    /\ i \in DOMAIN histReqs
    /\ histReqs[i].kind = "load"
    /\ RenderThrows(HistNewInfo(body, providersInfo))
    /\ histMounted' = FALSE
    /\ providersInfo' = <<>>
    /\ histIsLoading' = FALSE
    /\ clearingProvider' = ""
    /\ actionStatus' = "idle"
    /\ histReqs' = <<>>
    /\ histTimeouts' = <<>>
    /\ histFetched' = FALSE
    /\ UNCHANGED histProjectId
    /\ UNCHANGED <<monVars, scmVars, indVars, wizVars>>
    /\ last' = [Step("history", "loadDone", "ok", FALSE, histReqs[i].proj,
                     histProjectId, TRUE)
                  EXCEPT !.target = histReqs[i].provider]
HistNext ==
    \/ HistMount(FirstProject)
    \/ \E p \in Projects : HistSetProject(p)
    \/ HistRefresh
    \/ \E id \in ProviderIds, a \in BOOLEAN : HistClearOne(id, a)
    \/ \E a \in BOOLEAN : HistClearAll(a)
    \/ \E i \in 1..MaxInFlight, o \in Outcomes :
         \E b \in (IF o = "ok" THEN HistBodies ELSE {<<>>}) : HistResponse(i, o, b)
    \/ \E k \in 1..MaxTimeouts : HistTimeoutFires(k)


\* ------------------------------------------------- SessionContinuityManager
NoSession == [hasActiveConversation |-> FALSE, providers |-> <<>>,
              lastActivity |-> "", messageCount |-> 0]
NoMessage == [providerNames |-> <<>>, totalMessages |-> 0]
Now == "now"
BannerMs == 3000

\* providerNames[provider] || provider; the Chinese names of qwen and doubao
\* are written in pinyin
formatProviderName(provider) ==
    CASE provider = "deepseek" -> "DeepSeek"
      [] provider = "qwen"     -> "Tongyi Qianwen"
      [] provider = "kimi"     -> "Kimi"
      [] provider = "doubao"   -> "Doubao (zh)"
      [] OTHER                 -> provider

\* what the restoration flow is shown of each key
NullActive == [active |-> TRUE, summary |-> Summary(TRUE, 0)]
ScmInfos(k) ==
    CASE k = KeyOrder[1] ->
           {[active |-> a, summary |-> Summary(FALSE, n)] : a \in BOOLEAN, n \in {0, 1, MaxMsgs}}
           \cup {NullActive}
      [] k = KeyOrder[2] ->
           {Active(MaxMsgs), [active |-> FALSE, summary |-> Summary(FALSE, 1)]}
      [] OTHER -> {Active(1)}
ScmBodies == ProviderBodies([k \in AllKeys |-> ScmInfos(k)], AllKeySets)

\* info.summary.total_messages throws a TypeError when summary is null
Throws(e) == e.summary.isNull
\* mutant: the message-count test is dropped from the filter
IsRestorableActiveOnly(e) == e.active
\* .filter(([_, info]) => info.active && info.summary.total_messages > 0)
IsRestorable(e) == e.active /\ e.summary.total_messages > 0
\* the filter of line 59 throws when it reaches an active entry without summary
FilterThrows(data) == \E i \in DOMAIN data : data[i].active /\ Throws(data[i])
\* .map(([provider, _]) => provider)
ProvidersOf(entries) == [i \in DOMAIN entries |-> entries[i].provider]
activeProvidersOf(data) == ProvidersOf(SelectSeq(data, IsRestorable))

RECURSIVE SumTotals(_)
SumTotals(entries) ==
    IF entries = <<>> THEN 0
    ELSE Head(entries).summary.total_messages + SumTotals(Tail(entries))
\* mutant: the sum runs over every entry of the body
CountedEntryAll(e) == TRUE
\* Object.values(data).filter(info => info.active).reduce(sum + total_messages, 0)
CountedEntry(e) == e.active
totalMessagesOf(data) == SumTotals(SelectSeq(data, CountedEntry))

ScmRoom == Len(scmReqs) < MaxInFlight

\* checkAndRestoreConversations() up to its await
ScmStart(proj) ==
    /\ scmIsLoading' = TRUE
    /\ scmReqs' = Append(scmReqs, [proj |-> proj])
    /\ restoreCalls' = <<>>
    /\ loadedCalls' = <<>>
    /\ restoreBody' = <<>>
    /\ UNCHANGED <<sessionInfo, showStatus, statusMessage, scmTimeouts>>

ScmMount(proj) ==
    /\ ~scmMounted
    /\ ScmRoom
    /\ scmMounted' = TRUE
    /\ scmProjectId' = proj
    /\ ScmStart(proj)
    /\ UNCHANGED <<monVars, histVars, indVars, wizVars>>
    /\ last' = [UserStep("restore", "mount", proj) EXCEPT !.sent = "providers"]

ScmSetProject(proj) ==
    /\ scmMounted
    /\ proj # scmProjectId
    /\ ScmRoom
    /\ scmProjectId' = proj
    /\ ScmStart(proj)
    /\ UNCHANGED scmMounted
    /\ UNCHANGED <<monVars, histVars, indVars, wizVars>>
    /\ last' = [UserStep("restore", "setProject", proj) EXCEPT !.sent = "providers"]

\* the branch the continuation takes
ScmBranch(outcome, data) ==
    CASE outcome = "non2xx"                  -> "notOk"
      [] outcome \in {"netError", "badJson"} -> "catch"
      [] FilterThrows(data)                  -> "catch"
      [] Len(activeProvidersOf(data)) > 0    -> "restore"
      [] OTHER                               -> "empty"

\* the providers response of request i settles: rest of checkAndRestoreConversations
ScmResponse(i, outcome, data) ==
    /\ i \in DOMAIN scmReqs
    /\ outcome \in {"ok", "badJson", "non2xx", "netError"}
    /\ LET r == scmReqs[i]
           branch == ScmBranch(outcome, data)
           info == [hasActiveConversation |-> TRUE,
                    providers |-> activeProvidersOf(data),
                    lastActivity |-> Now,
                    messageCount |-> totalMessagesOf(data)]
           providerNames == [j \in DOMAIN info.providers |->
                               formatProviderName(info.providers[j])]
       IN /\ IF branch = "restore"
             THEN /\ Len(scmTimeouts) < MaxBanners
                  /\ sessionInfo' = info
                  /\ restoreCalls' = <<info>>
                  /\ statusMessage' = [providerNames |-> providerNames,
                                       totalMessages |-> totalMessagesOf(data)]
                  /\ showStatus' = TRUE
                  /\ scmTimeouts' = Append(scmTimeouts, [ms |-> BannerMs])
                  /\ loadedCalls' = <<TRUE>>
             ELSE /\ restoreCalls' = <<>>
                  /\ loadedCalls' = IF branch = "notOk" THEN <<>> ELSE <<FALSE>>
                  /\ UNCHANGED <<sessionInfo, statusMessage, showStatus, scmTimeouts>>
          /\ scmIsLoading' = FALSE
          /\ scmReqs' = RemoveAt(scmReqs, i)
          /\ restoreBody' = data
          /\ last' = [Step("restore", "response", outcome, FALSE, r.proj, scmProjectId,
                           branch = "restore")
                        EXCEPT !.logged = branch = "catch"]
    /\ UNCHANGED <<scmMounted, scmProjectId>>
    /\ UNCHANGED <<monVars, histVars, indVars, wizVars>>

\* the banner is rendered
BannerShown == scmMounted /\ ~scmIsLoading /\ showStatus /\ sessionInfo # NoSession

ScmNoCalls == restoreCalls' = <<>> /\ loadedCalls' = <<>> /\ restoreBody' = <<>>

\* the close button of the banner: setShowStatus(false)
ScmDismiss ==
    /\ BannerShown
    /\ showStatus' = FALSE
    /\ ScmNoCalls
    /\ UNCHANGED <<scmMounted, scmProjectId, sessionInfo, scmIsLoading, statusMessage,
                   scmReqs, scmTimeouts>>
    /\ UNCHANGED <<monVars, histVars, indVars, wizVars>>
    /\ last' = UserStep("restore", "dismiss", scmProjectId)

\* a banner timeout fires: setShowStatus(false)
ScmTimeoutFires(k) ==
    /\ k \in DOMAIN scmTimeouts
    /\ showStatus' = FALSE
    /\ scmTimeouts' = RemoveAt(scmTimeouts, k)
    /\ ScmNoCalls
    /\ UNCHANGED <<scmMounted, scmProjectId, sessionInfo, scmIsLoading, statusMessage,
                   scmReqs>>
    /\ UNCHANGED <<monVars, histVars, indVars, wizVars>>
    /\ last' = UserStep("restore", "timeout", scmProjectId)

ScmNext ==
    \/ \E p \in Projects : ScmMount(p)
    \/ \E p \in Projects : ScmSetProject(p)
    \/ \E i \in 1..MaxInFlight, o \in Outcomes :
         \E b \in (IF o = "ok" THEN ScmBodies ELSE {<<>>}) : ScmResponse(i, o, b)
    \/ ScmDismiss
    \/ \E k \in 1..MaxBanners : ScmTimeoutFires(k)

\* ---------------------------------------------- ConversationStatusIndicator
NoProvider == ""
NoSummary  == [provider |-> "", total_messages |-> 0, isNull |-> TRUE]
IndProviders == {"deepseek", "qwen", NoProvider}
\* body of GET /summary?provider=...
SummaryBodies(provider) ==
    {[provider |-> provider, total_messages |-> n, isNull |-> FALSE] : n \in {0, MaxMsgs}}

IndRoom == Len(indReqs) < MaxInFlight
IndReq(kind, proj, provider) ==
    [kind |-> kind, proj |-> proj, provider |-> provider]

\* useEffect(..., [projectId, activeProvider]): if (activeProvider) loadConversationSummary()
IndEffect(proj, provider) ==
    IF provider # NoProvider
    THEN /\ IndRoom
         /\ indReqs' = Append(indReqs, IndReq("summary", proj, provider))
    ELSE indReqs' = indReqs

IndMount(proj, provider) ==
    /\ ~indMounted
    /\ indMounted' = TRUE
    /\ indProjectId' = proj
    /\ activeProvider' = provider
    /\ IndEffect(proj, provider)
    /\ UNCHANGED <<summary, indIsVisible>>
    /\ UNCHANGED <<monVars, histVars, scmVars, wizVars>>
    /\ last' = [UserStep("indicator", "mount", proj) EXCEPT
                    !.target = provider,
                    !.sent = IF provider # NoProvider THEN "summary" ELSE "none"]

IndSetProps(proj, provider) ==
    /\ indMounted
    /\ <<proj, provider>> # <<indProjectId, activeProvider>>
    /\ indProjectId' = proj
    /\ activeProvider' = provider
    /\ IndEffect(proj, provider)
    /\ UNCHANGED <<indMounted, summary, indIsVisible>>
    /\ UNCHANGED <<monVars, histVars, scmVars, wizVars>>
    /\ last' = [UserStep("indicator", "setProps", proj) EXCEPT
                    !.target = provider,
                    !.sent = IF provider # NoProvider THEN "summary" ELSE "none"]

\* the chip is rendered: !(!isVisible || !summary || summary.total_messages === 0)
IndicatorShown ==
    indMounted /\ indIsVisible /\ ~summary.isNull /\ summary.total_messages # 0

\* the clear button: fetch(DELETE ...provider=${activeProvider}) up to its await
IndClear ==
    /\ IndicatorShown
    /\ IndRoom
    /\ indReqs' = Append(indReqs, IndReq("delete", indProjectId, activeProvider))
    /\ UNCHANGED <<indMounted, indProjectId, activeProvider, summary, indIsVisible>>
    /\ UNCHANGED <<monVars, histVars, scmVars, wizVars>>
    /\ last' = [UserStep("indicator", "clear", indProjectId) EXCEPT
                    !.target = activeProvider, !.sent = "delete"]

\* if (response.ok) of loadConversationSummary
IndLoadWrites(outcome) == outcome = "ok"

\* the summary response of request i settles: rest of loadConversationSummary
IndSummaryDone(i, outcome, data) ==
    LET r == indReqs[i]
        writes == IndLoadWrites(outcome)
    IN /\ r.kind = "summary"
       /\ outcome \in {"ok", "badJson", "non2xx", "netError"}
       /\ writes => data \in SummaryBodies(r.provider)
       /\ summary' = IF writes THEN data ELSE summary
       /\ indIsVisible' = IF writes THEN data.total_messages > 0 ELSE indIsVisible
       /\ last' = [Step("indicator", "summaryDone", outcome, FALSE, r.proj, indProjectId, writes)
                     EXCEPT !.target = r.provider,
                            !.logged = outcome \in {"netError", "badJson"}]

\* the DELETE response of request i settles: rest of the onClick handler; the
\* handler does not look at response.ok
IndDeleteDone(i, outcome) ==
    LET r == indReqs[i]
        resolved == outcome \in {"ok", "non2xx"}
    IN /\ r.kind = "delete"
       /\ outcome \in {"ok", "non2xx", "netError"}
       /\ summary' = IF resolved THEN NoSummary ELSE summary
       /\ indIsVisible' = IF resolved THEN FALSE ELSE indIsVisible
       /\ last' = [Step("indicator", "deleteDone", outcome, FALSE, r.proj, indProjectId, resolved)
                     EXCEPT !.target = r.provider, !.logged = outcome = "netError"]

IndResponse(i, outcome, data) ==
    /\ i \in DOMAIN indReqs
    /\ \/ IndSummaryDone(i, outcome, data)
       \/ data = NoSummary /\ IndDeleteDone(i, outcome)
    /\ indReqs' = RemoveAt(indReqs, i)
    /\ UNCHANGED <<indMounted, indProjectId, activeProvider>>
    /\ UNCHANGED <<monVars, histVars, scmVars, wizVars>>

IndNext ==
    \/ \E p \in Projects, a \in IndProviders : IndMount(p, a)
    \/ \E p \in Projects, a \in IndProviders : IndSetProps(p, a)
    \/ IndClear
    \/ \E i \in 1..MaxInFlight, o \in Outcomes :
         \E d \in (IF o = "ok" THEN UNION {SummaryBodies(a) : a \in IndProviders}
                                ELSE {}) \cup {NoSummary} :
            IndResponse(i, o, d)

\* ------------------------------------------------- key-configuration wizard
\* Text is a sequence of characters, each a string of length one; the text of
\* a comment is one token after "# ". A file is the sequence of its lines
\* (content.split('\n'), lines.join('\n')); a missing file and an empty one
\* both read as no line.
Upper ==
    {"A", "B", "C", "D", "E", "F", "G", "H", "I", "J", "K", "L", "M",
     "N", "O", "P", "Q", "R", "S", "T", "U", "V", "W", "X", "Y", "Z"}
DEEPSEEK_API_KEY ==
    <<"D", "E", "E", "P", "S", "E", "E", "K", "_", "A", "P", "I", "_", "K", "E", "Y">>
QWEN_API_KEY   == <<"Q", "W", "E", "N", "_", "A", "P", "I", "_", "K", "E", "Y">>
KIMI_API_KEY   == <<"K", "I", "M", "I", "_", "A", "P", "I", "_", "K", "E", "Y">>
DOUBAO_API_KEY == <<"D", "O", "U", "B", "A", "O", "_", "A", "P", "I", "_", "K", "E", "Y">>
WizProviders == <<"deepseek", "qwen", "kimi", "doubao">>
KeyVar(provider) ==
    CASE provider = "deepseek" -> DEEPSEEK_API_KEY
      [] provider = "qwen"     -> QWEN_API_KEY
      [] provider = "kimi"     -> KIMI_API_KEY
      [] provider = "doubao"   -> DOUBAO_API_KEY

\* answer.trim()
RECURSIVE TrimStart(_)
TrimStart(s) == IF s # <<>> /\ Head(s) \in {" ", "\t"} THEN TrimStart(Tail(s)) ELSE s
RECURSIVE TrimEnd(_)
TrimEnd(s) ==
    IF s # <<>> /\ s[Len(s)] \in {" ", "\t"} THEN TrimEnd(SubSeq(s, 1, Len(s) - 1)) ELSE s
\* what askQuestion resolves with when the user types `answer`
askQuestion(answer) == TrimEnd(TrimStart(answer))

\* key.startsWith(prefix)
startsWith(key, prefix) ==
    Len(key) >= Len(prefix) /\ SubSeq(key, 1, Len(prefix)) = prefix
validateApiKey(provider, key) ==
    IF key = <<>> THEN TRUE
    ELSE CASE provider \in {"deepseek", "qwen", "kimi"} -> startsWith(key, <<"s", "k", "-">>)
           [] provider = "doubao" -> Len(key) > 10
           [] OTHER -> TRUE

\* an object with string keys, as the sequence of its entries in insertion order
Has(envVars, name) == \E i \in DOMAIN envVars : envVars[i].name = name
Get(envVars, name) == envVars[CHOOSE i \in DOMAIN envVars : envVars[i].name = name].value
Put(envVars, name, value) ==
    IF Has(envVars, name)
    THEN [i \in DOMAIN envVars |->
            IF envVars[i].name = name THEN [name |-> name, value |-> value] ELSE envVars[i]]
    ELSE Append(envVars, [name |-> name, value |-> value])
\* if (envVars.NAME): the property is there and is not the empty string
Truthy(envVars, name) == Has(envVars, name) /\ Get(envVars, name) # <<>>

\* line.match(/^([A-Z_]+)=(.*)$/): the longest run of [A-Z_] from the start
\* of the line has to be followed by "="; <<name, value>>, or <<>> for null
Match(line) ==
    LET ks == {k \in 0..Len(line) : \A i \in 1..k : line[i] \in Upper \cup {"_"}}
        n  == CHOOSE k \in ks : \A j \in ks : j <= k
    IN IF n >= 1 /\ n < Len(line) /\ line[n + 1] = "="
       THEN <<SubSeq(line, 1, n), SubSeq(line, n + 2, Len(line))>>
       ELSE <<>>
RECURSIVE ReadLines(_, _)
ReadLines(lines, envVars) ==
    IF lines = <<>> THEN envVars
    ELSE LET match == Match(Head(lines))
         IN ReadLines(Tail(lines),
                      IF match # <<>> THEN Put(envVars, match[1], match[2]) ELSE envVars)
readExistingEnv(file) == ReadLines(file, <<>>)

\* writeEnvFile(envVars): the lines it joins and writes
Comment(text) == <<"#", " ", text>>
Assign(name, value) == name \o <<"=">> \o value
KeySection(envVars, name, title) ==
    IF Truthy(envVars, name)
    THEN <<Comment(title), Assign(name, Get(envVars, name)), <<>>>>
    ELSE <<>>
otherKeys(envVars) ==
    SelectSeq(envVars, LAMBDA e : e.name \notin {DEEPSEEK_API_KEY, QWEN_API_KEY,
                                                 KIMI_API_KEY, DOUBAO_API_KEY})
writeEnvFile(envVars) ==
    <<Comment("Claudable Environment Variables"),
      Comment("Auto-generated configuration file"), <<>>,
      Comment("==========="), Comment("Domestic AI Model API Configuration"),
      Comment("==========="), <<>>>>
    \o KeySection(envVars, DEEPSEEK_API_KEY, "DeepSeek API Configuration")
    \o KeySection(envVars, QWEN_API_KEY, "Qwen API Configuration")
    \o KeySection(envVars, KIMI_API_KEY, "Kimi API Configuration")
    \o KeySection(envVars, DOUBAO_API_KEY, "Doubao API Configuration")
    \o (IF Len(otherKeys(envVars)) > 0
        THEN <<Comment("==========="), Comment("Other Configuration"),
               Comment("==========="), <<>>>>
             \o [i \in DOMAIN otherKeys(envVars) |->
                   Assign(otherKeys(envVars)[i].name, otherKeys(envVars)[i].value)]
        ELSE <<>>)

\* The .env files the wizard is run on: any selection, in this order, of a
\* DeepSeek key, a Doubao key, DOUBAO_API_KEY with an empty value, and four
\* settings of other tools, one with an empty value, one with a digit and one
\* with lower-case letters in its name; DOUBAO_API_KEY is assigned at most once.
OldDoubaoKey == <<"o", "l", "d", "d", "o", "u", "b", "a", "o", "k", "e", "y">>
EnvFiles ==
    LET SampleLines ==
            <<Assign(DEEPSEEK_API_KEY, <<"s", "k", "-", "o">>),
              Assign(DOUBAO_API_KEY, OldDoubaoKey),
              Assign(DOUBAO_API_KEY, <<>>),
              <<"P", "O", "R", "T", "=", "8", "0">>,
              <<"A", "_", "B", "=">>,
              <<"S", "3", "=", "b">>,
              <<"p", "x", "=", "1">>>>
    IN {SelectSeq(SampleLines, LAMBDA l : l \in L) :
           L \in {K \in SUBSET {SampleLines[i] : i \in DOMAIN SampleLines} :
                     ~({SampleLines[2], SampleLines[3]} \subseteq K)}}
\* what the user types at a prompt: nothing, a key of the right format with a
\* blank before it, a key of the wrong format
WrongKey     == <<"a", "b", "c">>
Typed(provider) ==
    IF provider = "doubao"
    THEN {<<>>, <<" ", "n", "e", "w", "d", "o", "u", "b", "a", "o", "k", "e", "y">>, WrongKey}
    ELSE {<<>>, <<" ", "s", "k", "-", "n">>, WrongKey}

\* the user's .env before the wizard is run
WizFile(file) ==
    /\ wizPc = "idle"
    /\ file # envFile
    /\ envFile' = file
    /\ UNCHANGED <<wizPc, envAtStart, existingEnv, answers>>
    /\ UNCHANGED <<monVars, histVars, scmVars, indVars>>
    /\ last' = UserStep("wizard", "file", NoProject)

\* main() up to the first question
WizStart ==
    /\ wizPc = "idle"
    /\ existingEnv' = readExistingEnv(envFile)
    /\ envAtStart' = envFile
    /\ answers' = <<>>
    /\ wizPc' = "deepseek"
    /\ UNCHANGED envFile
    /\ UNCHANGED <<monVars, histVars, scmVars, indVars>>
    /\ last' = UserStep("wizard", "start", NoProject)

\* main() from the answer to the question of `provider` up to the next one:
\* if (key && !validateApiKey(provider, key)) warn; else if (key) existingEnv.X = key
WizAnswerSk(provider, next, answer) ==
    LET key == askQuestion(answer)
    IN /\ wizPc = provider
       /\ existingEnv' = IF key # <<>> /\ ~validateApiKey(provider, key) THEN existingEnv
                          ELSE IF key # <<>> THEN Put(existingEnv, KeyVar(provider), key)
                          ELSE existingEnv
       /\ answers' = Append(answers, key)
       /\ wizPc' = next
       /\ UNCHANGED <<envFile, envAtStart>>
       /\ UNCHANGED <<monVars, histVars, scmVars, indVars>>
       /\ last' = UserStep("wizard", provider, NoProject)
WizDeepseek(answer) == WizAnswerSk("deepseek", "qwen", answer)
WizQwen(answer)     == WizAnswerSk("qwen", "kimi", answer)
WizKimi(answer)     == WizAnswerSk("kimi", "doubao", answer)

\* main() from the answer to the Doubao question to its end:
\* if (doubaoKey) existingEnv.DOUBAO_API_KEY = doubaoKey; writeEnvFile(existingEnv)
WizDoubao(answer) ==
    LET doubaoKey == askQuestion(answer)
        env == IF doubaoKey # <<>>
               THEN Put(existingEnv, DOUBAO_API_KEY, doubaoKey)
               ELSE existingEnv
    IN /\ wizPc = "doubao"
       /\ existingEnv' = env
       /\ answers' = Append(answers, doubaoKey)
       /\ envFile' = writeEnvFile(env)
       /\ wizPc' = "done"
       /\ UNCHANGED envAtStart
       /\ UNCHANGED <<monVars, histVars, scmVars, indVars>>
       /\ last' = UserStep("wizard", "doubao", NoProject)

WizNext ==
    \/ \E f \in EnvFiles : WizFile(f)
    \/ WizStart
    \/ \E a \in Typed("deepseek") : WizDeepseek(a)
    \/ \E a \in Typed("qwen") : WizQwen(a)
    \/ \E a \in Typed("kimi") : WizKimi(a)
    \/ \E a \in Typed("doubao") : WizDoubao(a)
Init ==
    /\ monMounted = FALSE
    /\ monProjectId = NoProject
    /\ stats = <<>>
    /\ refreshInterval = 0
    /\ monTimers = <<>>
    /\ monCleanup = 0
    /\ monFetches = <<>>
    /\ histMounted = FALSE
    /\ histProjectId = NoProject
    /\ providersInfo = <<>>
    /\ histIsLoading = FALSE
    /\ clearingProvider = ""
    /\ actionStatus = "idle"
    /\ histReqs = <<>>
    /\ histTimeouts = <<>>
    /\ histFetched = FALSE
    /\ scmMounted = FALSE
    /\ scmProjectId = NoProject
    /\ sessionInfo = NoSession
    /\ scmIsLoading = TRUE
    /\ showStatus = FALSE
    /\ statusMessage = NoMessage
    /\ scmReqs = <<>>
    /\ scmTimeouts = <<>>
    /\ restoreCalls = <<>>
    /\ loadedCalls = <<>>
    /\ restoreBody = <<>>
    /\ indMounted = FALSE
    /\ indProjectId = NoProject
    /\ activeProvider = NoProvider
    /\ summary = NoSummary
    /\ indIsVisible = FALSE
    /\ indReqs = <<>>
    /\ wizPc = "idle"
    /\ envFile = <<>>
    /\ envAtStart = <<>>
    /\ existingEnv = <<>>
    /\ answers = <<>>
    /\ last = NoStep

SpecMonitor == Init /\ [][MonNext]_vars
SpecHistory == Init /\ [][HistNext]_vars
\* the history tab with resetAllConversations also called past its button
HistDirectNext ==
    \/ HistNext
    \/ \E a \in BOOLEAN : HistCallClearAll(a)
SpecHistoryDirect == Init /\ [][HistDirectNext]_vars
\* The history tab when mutation requests may hang: the browser fires every
\* pending setTimeout callback and refreshes are answered, while nothing makes
\* a DELETE or POST settle (fetch is called without signal or timeout).
HistTimerFires == \E k \in 1..MaxTimeouts : HistTimeoutFires(k)
HistLoadAnswered ==
    \E i \in 1..MaxInFlight, o \in Outcomes :
      \E b \in (IF o = "ok" THEN HistBodies ELSE {<<>>}) :
         /\ i \in DOMAIN histReqs
         /\ histReqs[i].kind = "load"
         /\ HistResponse(i, o, b)
SpecHistoryHang ==
    Init /\ [][HistNext]_vars /\ WF_vars(HistTimerFires) /\ WF_vars(HistLoadAnswered)
\* The history tab when the service may answer a body with a null entry.
SpecHistoryNull ==
    Init /\ [][\/ HistNext
               \/ \E i \in 1..MaxInFlight, b \in NullBodies : HistLoadDoneNull(i, b)]_vars
\* The history tab on one project when every request is answered, with a
\* response or a network error, and every pending setTimeout callback fires.
\* The service knows the registered providers deepseek and qwen.
LiveHistBodies ==
    {b \in HistBodies : \A j \in DOMAIN b : b[j].provider \in ProviderIds}
HistAnswered(i) ==
    \E o \in Outcomes :
      \E b \in (IF o = "ok" THEN LiveHistBodies ELSE {<<>>}) : HistResponse(i, o, b)
HistLiveNext ==
    \/ HistMount(FirstProject)
    \/ HistRefresh
    \/ \E id \in ProviderIds, a \in BOOLEAN : HistClearOne(id, a)
    \/ \E a \in BOOLEAN : HistClearAll(a)
    \/ \E i \in 1..MaxInFlight : HistAnswered(i)
    \/ HistTimerFires
SpecHistoryLive ==
    /\ Init /\ [][HistLiveNext]_vars
    /\ WF_vars(HistTimerFires)
    /\ \A i \in 1..MaxInFlight : SF_vars(HistAnswered(i))
SpecRestore == Init /\ [][ScmNext]_vars
\* The monitor and the history tab of one page, mounted on the same project
\* and running side by side: the monitor polls while the tab loads and clears.
\* The service answers 2xx or non-2xx and knows one provider.
PageOutcomes    == {"ok", "non2xx"}
PageStatsBodies == {b \in StatsBodies : Len(b) <= 1}
PageHistBodies  == {b \in HistBodies : Len(b) <= 1}
PageNext ==
    \/ MonMount(FirstProject)
    \/ \E h \in 1..MaxHandles : MonTick(h)
    \/ \E i \in 1..MaxInFlight, o \in PageOutcomes :
         \E b \in (IF o = "ok" THEN PageStatsBodies ELSE {<<>>}) : MonResponse(i, o, b)
    \/ HistMount(FirstProject)
    \/ \E id \in ProviderIds : HistClearOne(id, TRUE)
    \/ \E i \in 1..MaxInFlight, o \in PageOutcomes :
         \E b \in (IF o = "ok" THEN PageHistBodies ELSE {<<>>}) : HistResponse(i, o, b)
    \/ HistTimerFires
SpecPage == Init /\ [][PageNext]_vars
SpecIndicator == Init /\ [][IndNext]_vars
SpecWizard == Init /\ [][WizNext]_vars

\* The four components and the wizard share no state: a behaviour of the
\* whole is an interleaving of behaviours of the single programs, and Spec
\* follows one of them at a time.
Follows(comp) == last.comp \in {"none", comp}
Next ==
    \/ Follows("monitor") /\ MonNext
    \/ Follows("history") /\ HistNext
    \/ Follows("restore") /\ ScmNext
    \/ Follows("indicator") /\ IndNext
    \/ Follows("wizard") /\ WizNext
Spec == Init /\ [][Next]_vars
\* The three components that keep a snapshot of what they read, one at a
\* time, the history tab with the service of SpecHistoryLive.
SpecReads ==
    Init /\ [][\/ Follows("monitor") /\ MonNext
               \/ Follows("history") /\ (HistLiveNext \/ \E p \in Projects : HistSetProject(p))
               \/ Follows("indicator") /\ IndNext]_vars

\* ================================================================== claims
ReadResponse(step) ==
    \/ step.comp = "monitor" /\ step.op = "response"
    \/ step.comp = "history" /\ step.op = "loadDone"
    \/ step.comp = "indicator" /\ step.op = "summaryDone"
MutationResponse(step) ==
    step.comp = "history" /\ step.op \in {"deleteDone", "resetDone"}

\* C1: a response of a request issued before a request whose response has
\* already been stored is discarded: it does not write the snapshot.
C1_SequenceDiscard == (ReadResponse(last) /\ last.stale) => ~last.wrote

\* C2: at most one mutation request (DELETE history or POST reset-all) of the
\* history tab is in flight.
C2_OneMutationSlot == Cardinality(Mutations(histReqs)) <= 1

\* C3: every step that sends a destructive request has asked for a
\* confirmation and got it accepted, and the confirmation of a DELETE names
\* the target provider.
C3_ConfirmedBeforeDestructive ==
    last.sent \in {"delete", "reset"} =>
        /\ last.confirm = "accepted"
        /\ last.sent = "delete" => last.named = <<FindName(last.target)>>

\* C4: a response to a fetch issued for another project identifier than the
\* one the view now shows (or for a view that is gone) does not write the
\* snapshot.
C4_StaleViewGuard == (ReadResponse(last) /\ last.reqProj # last.viewProj) => ~last.wrote

\* C5: a read fetch that fails with a network error or a non-2xx status
\* leaves stats, providersInfo and summary as they were and sets no error
\* status.
C5_FailedReadKeepsSnapshot ==
    [][(ReadResponse(last') /\ last'.outcome \in FailOutcomes) =>
          /\ stats' = stats
          /\ providersInfo' = providersInfo
          /\ summary' = summary /\ indIsVisible' = indIsVisible
          /\ actionStatus' = actionStatus
          /\ ~last'.alert]_vars
C5_Witness ==
    /\ ReadResponse(last) /\ last.comp = "history" /\ last.outcome \in FailOutcomes
    /\ providersInfo # <<>>
    /\ ~histIsLoading

\* C6: a 2xx stats response without a `providers` field leaves the stored
\* stats unchanged.
C6_MalformedDiscarded ==
    [][(last'.comp = "monitor" /\ last'.op = "response" /\ last'.outcome = "noField") =>
          stats' = stats]_vars

\* the snapshot enables the control of the mutation whose response `step`
\* handled (isLoading and isClearing aside)
StartedOn(info, step) ==
    IF step.op = "deleteDone" THEN InfoActive(info, step.target) ELSE ~NoneActive(info)

\* C7 as stated: after a failed ClearOne or ClearAll the status is the
\* failure indicator, no refresh was issued and providersInfo equals its
\* value at the moment the mutation started. A mutation starts only on a
\* snapshot that enables its control, so the snapshot after the failure
\* enables it too.
C7_FailedMutationAsStated ==
    (MutationResponse(last) /\ last.outcome \in FailOutcomes) =>
        /\ actionStatus = "error"
        /\ last.sent = "none"
        /\ StartedOn(providersInfo, last)
\* C7 as amended: the step that handles a failed ClearOne or ClearAll sets
\* the failure indicator, issues no request and leaves providersInfo as it
\* was when the failure arrived.
C7_FailedMutationKeepsStore ==
    [][(MutationResponse(last') /\ last'.outcome \in FailOutcomes) =>
          /\ actionStatus' = "error"
          /\ last'.sent = "none"
          /\ Len(histReqs') = Len(histReqs) - 1
          /\ \A j \in DOMAIN histReqs' : \E i \in DOMAIN histReqs : histReqs'[j] = histReqs[i]
          /\ providersInfo' = providersInfo]_vars
C7_Witness ==
    /\ MutationResponse(last) /\ last.outcome \in FailOutcomes
    /\ actionStatus = "error"
    /\ ~StartedOn(providersInfo, last)

\* C8: at most one interval timer is active, a timer is cleared once and
\* only once, and no timer is active after unmount.
ActiveTimers == {h \in DOMAIN monTimers : monTimers[h].state = "active"}
C8_TimerDiscipline ==
    /\ Cardinality(ActiveTimers) <= 1
    /\ \A h \in DOMAIN monTimers :
         monTimers[h].clears = (IF monTimers[h].state = "active" THEN 0 ELSE 1)
    /\ ~monMounted => ActiveTimers = {}
    /\ ActiveTimers \subseteq {monCleanup}
C8_Witness ==
    /\ ~monMounted
    /\ Len(monTimers) >= 2
    /\ \A h \in DOMAIN monTimers : monTimers[h].state = "cleared"

\* the set S of the restoration flow: active providers with messages
Restorable(data) ==
    {data[i].provider : i \in {j \in DOMAIN data :
        data[j].active /\ ~data[j].summary.isNull /\ data[j].summary.total_messages > 0}}
WellFormed(data) == \A i \in DOMAIN data : ~data[i].summary.isNull
Range(seq) == {seq[i] : i \in DOMAIN seq}
RestorationHandled ==
    last.comp = "restore" /\ last.op = "response" /\ last.outcome = "ok"

\* C9: on a successful well-formed providers response with non-empty S the
\* restore callback is called once with hasActiveConversation = TRUE and
\* providers = S, and the banner is shown with the display name of every
\* provider of S.
C9_RestoreReportsActiveSet ==
    (RestorationHandled /\ WellFormed(restoreBody) /\ Restorable(restoreBody) # {}) =>
        /\ Len(restoreCalls) = 1
        /\ restoreCalls[1].hasActiveConversation
        /\ Range(restoreCalls[1].providers) = Restorable(restoreBody)
        /\ Len(restoreCalls[1].providers) = Cardinality(Restorable(restoreBody))
        /\ BannerShown
        /\ \A p \in Restorable(restoreBody) :
             formatProviderName(p) \in Range(statusMessage.providerNames)
C9_Witness ==
    /\ RestorationHandled /\ WellFormed(restoreBody)
    /\ Cardinality(Restorable(restoreBody)) >= 2
    /\ \E i \in DOMAIN restoreBody : restoreBody[i].active /\ restoreBody[i].provider \notin Restorable(restoreBody)
    /\ Len(restoreCalls) = 1
    /\ BannerShown

\* sum of total_messages over the entries of the providers in P
RECURSIVE SumOver(_, _)
SumOver(data, P) ==
    IF data = <<>> THEN 0
    ELSE (IF Head(data).provider \in P THEN Head(data).summary.total_messages ELSE 0)
         + SumOver(Tail(data), P)

\* C10: the messageCount of SessionInfo and of the banner is the sum of
\* total_messages over the providers listed in SessionInfo.providers, which
\* are the active providers with messages.
C10_MessageCountIsSumOfListed ==
    restoreCalls # <<>> =>
        /\ restoreCalls[1].messageCount =
              SumOver(restoreBody, Range(restoreCalls[1].providers))
        /\ restoreCalls[1].messageCount = SumOver(restoreBody, Restorable(restoreBody))
        /\ statusMessage.totalMessages = restoreCalls[1].messageCount
C10_Witness ==
    /\ restoreCalls # <<>>
    /\ restoreCalls[1].messageCount > MaxMsgs
    /\ Len(restoreCalls[1].providers) >= 2
    /\ \E i \in DOMAIN restoreBody :
         ~restoreBody[i].active /\ restoreBody[i].summary.total_messages > 0

\* a successful providers response without any provider that is active and
\* has messages has been handled
EmptyRestoration ==
    RestorationHandled /\ WellFormed(restoreBody) /\ Restorable(restoreBody) = {}

\* C11: after a successful providers response with empty S the consumer has
\* been told that there is no active conversation, the restore callback has
\* not been called and no banner is shown.
C11_EmptyReportsNoConversation ==
    EmptyRestoration =>
        /\ loadedCalls = <<FALSE>>
        /\ restoreCalls = <<>>
        /\ ~BannerShown
C11_StaleBanner ==
    /\ EmptyRestoration
    /\ loadedCalls = <<FALSE>> /\ restoreCalls = <<>>
    /\ BannerShown

\* the restoration fetch failed: network error, non-2xx status, or a body
\* that cannot be processed
FailedRestoration ==
    /\ last.comp = "restore" /\ last.op = "response"
    /\ \/ last.outcome \in {"netError", "non2xx", "badJson"}
       \/ last.outcome = "ok" /\ ~WellFormed(restoreBody)

\* C12: after a failed restoration fetch the consumer has been told that
\* there is no active conversation, no banner is shown and isLoading is false.
C12_FailureActsAsEmpty ==
    FailedRestoration =>
        /\ loadedCalls = <<FALSE>>
        /\ ~BannerShown
        /\ ~scmIsLoading
C12_Unnotified ==
    /\ FailedRestoration /\ last.outcome = "non2xx"
    /\ loadedCalls = <<>>
    /\ ~scmIsLoading

\* the history tab has just sent a DELETE history request
DeleteIssued == last.comp = "history" /\ last.op = "clearOne" /\ last.sent = "delete"

\* C13: the history tab issues a DELETE for provider p only when the
\* snapshot records p as active, and the Clear History control of every
\* provider the snapshot does not record as active is disabled.
C13_NoDeleteForInactive ==
    /\ DeleteIssued => InfoActive(providersInfo, last.target)
    /\ \A id \in ProviderIds \cup AllKeys :
         ~InfoActive(providersInfo, id) => ~ClearOneEnabled(id)
C13_Witness ==
    /\ DeleteIssued
    /\ InfoActive(providersInfo, last.target)
    /\ \E i \in DOMAIN providersInfo :
         ~providersInfo[i].active /\ ~ClearOneEnabled(providersInfo[i].provider)

\* C14: resetAllConversations run on a snapshot without active provider
\* shows the "nothing to clear" alert, asks for no confirmation, sends no
\* request and leaves providersInfo, isLoading and actionStatus unchanged.
C14_NothingToClear ==
    [][(last'.comp = "history" /\ last'.op = "clearAll" /\ NoneActive(providersInfo)) =>
          /\ last'.alert
          /\ last'.confirm = "none"
          /\ last'.sent = "none"
          /\ histReqs' = histReqs
          /\ providersInfo' = providersInfo
          /\ histIsLoading' = histIsLoading
          /\ actionStatus' = actionStatus]_vars
C14_Witness ==
    /\ last.comp = "history" /\ last.op = "clearAll"
    /\ NoneActive(providersInfo) /\ providersInfo # <<>>
    /\ last.alert /\ last.sent = "none"

\* number of providers the snapshot records as active
ActiveCount(info) == Cardinality({i \in DOMAIN info : info[i].active})
ClearAllRun == last.comp = "history" /\ last.op = "clearAll"

\* C15: ClearAll run on a snapshot with at least one active provider does
\* not take the "nothing to clear" path: it asks for a confirmation that
\* names as many providers as are active, and on acceptance sends the
\* reset-all request.
C15_ClearAllNamesEveryActive ==
    (ClearAllRun /\ ~NoneActive(providersInfo)) =>
        /\ ~last.alert
        /\ last.confirm # "none"
        /\ Len(last.named) = ActiveCount(providersInfo)
        /\ last.confirm = "accepted" => last.sent = "reset"
C15_AlertWithActive ==
    /\ ClearAllRun /\ ~NoneActive(providersInfo)
    /\ last.alert /\ last.sent = "none"

\* C16: a 2xx response to POST reset-all, whatever its body, sets the success
\* indicator and starts the refresh of providersInfo.
C16_Any2xxIsSuccess ==
    (last.comp = "history" /\ last.op = "resetDone" /\ last.outcome \in {"ok", "badJson"}) =>
        /\ actionStatus = "success"
        /\ last.sent = "load"
C16_BodyRejected ==
    /\ last.comp = "history" /\ last.op = "resetDone" /\ last.outcome = "badJson"
    /\ actionStatus = "error" /\ last.sent = "none"

\* a step that handled the response of a clear request
ClearResponse(step) ==
    \/ MutationResponse(step)
    \/ step.comp = "indicator" /\ step.op = "deleteDone"

\* C17: the step that handles the response of a clear request does not
\* write the locally held conversation state (providersInfo, summary).
C17_NoLocalDeletion == ClearResponse(last) => ~last.wrote
C17_LocalDeletionOnFailure ==
    /\ last.comp = "indicator" /\ last.op = "deleteDone" /\ last.outcome = "non2xx"
    /\ last.wrote /\ summary = NoSummary /\ ~indIsVisible

\* the refresh awaited by a successful ClearOne(p) has been answered 2xx;
\* last.target is p
FollowUpApplied ==
    /\ last.comp = "history" /\ last.op = "loadDone"
    /\ last.outcome = "ok" /\ last.target # ""

\* C18: when the refresh that follows a successful ClearOne(p) has been
\* answered 2xx with a body in which p is absent or inactive, the snapshot
\* does not record p as active, the Clear History control of p is disabled
\* and p is not among the providers ClearAll would name.
C18_ClearedProviderNotActive ==
    (FollowUpApplied /\ ~last.bodyActive) =>
        /\ ~InfoActive(providersInfo, last.target)
        /\ ~ClearOneEnabled(last.target)
        /\ FindName(last.target) \notin Range(ActiveNames(providersInfo))
C18_Witness ==
    /\ FollowUpApplied /\ last.wrote /\ ~last.bodyActive
    /\ \E i \in DOMAIN providersInfo :
         providersInfo[i].provider = last.target /\ ~providersInfo[i].active
    /\ ~ClearOneEnabled(last.target)
    /\ ~NoneActive(providersInfo)

\* the outstanding refreshes, and those among them that a mutation awaits
Loads(reqs) == {i \in DOMAIN reqs : reqs[i].kind = "load"}
FollowUps(reqs) == {i \in Loads(reqs) : reqs[i].cont # "none"}

\* C19: a refresh awaited by a mutation is issued only by the step that
\* receives that mutation's 2xx response, which takes the mutation request
\* out of flight; the step that asks for the confirmation (accepted or
\* declined) and the step that receives a failure issue no refresh.
C19_RefreshOnlyAfterSuccess ==
    [][/\ Cardinality(FollowUps(histReqs')) > Cardinality(FollowUps(histReqs)) =>
            /\ MutationResponse(last') /\ last'.outcome = "ok"
            /\ Cardinality(Mutations(histReqs')) = Cardinality(Mutations(histReqs)) - 1
       /\ (last'.comp = "history" /\ last'.op \in {"clearOne", "clearAll"}) =>
            /\ last'.sent # "load"
            /\ Cardinality(Loads(histReqs')) = Cardinality(Loads(histReqs))
       /\ (MutationResponse(last') /\ last'.outcome # "ok") =>
            /\ last'.sent = "none"
            /\ Cardinality(Loads(histReqs')) = Cardinality(Loads(histReqs))]_vars
C19_Witness ==
    /\ MutationResponse(last) /\ last.outcome = "ok" /\ last.sent = "load"
    /\ Cardinality(FollowUps(histReqs)) = 1
    /\ Cardinality(Loads(histReqs)) = 2

\* a ClearAll is under way: its POST or the refresh it awaits is outstanding
ClearAllUnderWay ==
    \E i \in DOMAIN histReqs :
        histReqs[i].kind = "reset" \/ (histReqs[i].kind = "load" /\ histReqs[i].cont = "resetAll")

\* C20: while a ClearAll is under way the Clear History control of every
\* provider is disabled.
C20_NoClearOneDuringClearAll ==
    ClearAllUnderWay => \A id \in ProviderIds : ~ClearOneEnabled(id)
C20_ClearOneEnabledDuringClearAll ==
    /\ \E i \in DOMAIN histReqs : histReqs[i].kind = "reset"
    /\ \E id \in ProviderIds : ClearOneEnabled(id)
    /\ last.comp = "history" /\ last.op = "loadDone"

\* no providers response of the mounted tab has been processed yet
BeforeFirstFetch == histMounted /\ ~histFetched

\* C21: from mount until the first providers response is processed (2xx or
\* failure) the Clear All History button and every Clear History button are
\* disabled, so no mutation can be accepted.
C21_NoMutationBeforeFirstFetch ==
    BeforeFirstFetch =>
        /\ ~ClearAllEnabled
        /\ \A id \in ProviderIds : ~ClearOneEnabled(id)
        /\ Mutations(histReqs) = {}
C21_Witness ==
    /\ BeforeFirstFetch
    /\ last.comp = "history" /\ last.op = "setProject"
    /\ Len(histReqs) = 2

\* C22: a mutation request that is never answered does not hold the mutation
\* slot forever: whenever a DELETE or POST of the tab is outstanding, the slot
\* is eventually free again.
C22_HungMutationReleased ==
    (Mutations(histReqs) # {}) ~> (Mutations(histReqs) = {})
\* a DELETE is outstanding and nothing else is pending: no request, no timer
C22_HungRequest ==
    /\ histMounted
    /\ Len(histReqs) = 1 /\ histReqs[1].kind = "delete"
    /\ clearingProvider = histReqs[1].provider
    /\ ~ClearOneEnabled(clearingProvider)
    /\ histTimeouts = <<>>

\* the step just taken gave the view another project identifier
ProjectChanged(comp) == last.comp = comp /\ last.op = "setProject"

\* C23: when the project identifier of a view changes, the snapshot of the
\* previous project is reset: after the change the history tab holds no
\* providers snapshot and the monitor no stats until the new project's fetch
\* is stored.
C23_SnapshotResetOnProjectChange ==
    /\ ProjectChanged("history") => providersInfo = <<>>
    /\ ProjectChanged("monitor") => stats = <<>>
\* the tab shows the new project with the previous project's active providers
C23_PreviousSnapshotKept ==
    /\ ProjectChanged("history")
    /\ histProjectId = "p2"
    /\ ~NoneActive(providersInfo)

\* the duration of the timer a mutation starts for the indicator it reports
IndicatorMs(status) == IF status = "success" THEN SuccessMs ELSE FailureMs

\* C24: the timer that clears a shown status indicator is the one started for
\* that indicator: a success indicator is cleared by a 2000 ms timer, a
\* failure indicator by a 3000 ms timer, never by the timer of another
\* mutation.
C24_IndicatorClearedByOwnTimer ==
    [][\A k \in 1..MaxTimeouts :
          (HistTimeoutFires(k) /\ actionStatus # "idle") =>
              histTimeouts[k].ms = IndicatorMs(actionStatus)]_vars
\* a success indicator is shown, its own timer is not started yet (the
\* refresh the mutation awaits is outstanding) and the 3000 ms timer of an
\* earlier failed mutation is pending
C24_EarlierTimerPending ==
    /\ histMounted
    /\ actionStatus = "success"
    /\ FollowUps(histReqs) # {}
    /\ histTimeouts = <<Timeout(FailureMs)>>
    /\ ENABLED HistTimerFires

BannerTimerFired == last.comp = "restore" /\ last.op = "timeout"

\* C25: a banner stays visible until its own 3000 ms have elapsed or the user
\* dismisses it. Banner timers all last 3000 ms and so fire in the order they
\* were started: while more than one is pending, the shown banner's own timer
\* is not the next to fire, and a timer that fires leaves the banner visible.
C25_BannerStaysForItsDuration ==
    [][(BannerTimerFired' /\ BannerShown /\ Len(scmTimeouts) > 1) => BannerShown']_vars
\* the banner of a second restoration is shown while the timer of the first
\* is still pending
C25_SecondBannerWithinFirstTimer ==
    /\ BannerShown
    /\ Len(scmTimeouts) = 2
    /\ last.comp = "restore" /\ last.op = "response" /\ last.wrote

TickFired == last.comp = "monitor" /\ last.op = "tick"

\* C26: while the monitor is mounted every tick of its interval issues a new
\* stats request, whether or not an earlier stats request is outstanding and
\* whether or not a mutation of the history tab is pending; the interval's
\* callback is never disabled by a request in flight.
C26_EveryTickRequests ==
    /\ [](\A h \in ActiveTimers :
            Len(monFetches) < MaxInFlight => ENABLED MonTick(h))
    /\ [][TickFired' => /\ monFetches' = Append(monFetches, StatsRequest(last'.reqProj))
                        /\ last'.sent = "stats"]_vars
C26_Witness ==
    /\ TickFired /\ last.sent = "stats"
    /\ monMounted
    /\ Len(monFetches) > 1
    /\ Mutations(histReqs) # {}

\* C27: the Active Models count the monitor shows equals the number of
\* providers of its snapshot that are active and have total_messages > 0.
C27_ActiveCountIsActiveWithMessages ==
    monMounted =>
        ActiveModels(stats) =
            Cardinality({i \in DOMAIN stats : stats[i].active /\ stats[i].total_messages > 0})
\* a provider whose session is not active is counted for its messages
C27_InactiveCounted ==
    /\ monMounted
    /\ last.comp = "monitor" /\ last.op = "response" /\ last.wrote
    /\ Len(stats) = 1 /\ ~stats[1].active /\ stats[1].total_messages > 0
    /\ ActiveModels(stats) = 1

StatsStored == last.comp = "monitor" /\ last.op = "response" /\ last.wrote

\* C28: the usage percentage is stored as delivered, above 100 too; the Max
\* Usage shown is the largest usage of the snapshot and may exceed 100; only
\* the width of the progress bar is cut at 100.
C28_UsageStoredUnclamped ==
    /\ [][\A i \in 1..MaxInFlight, b \in StatsBodies :
            (StatsStored' /\ last'.outcome = "ok" /\ MonResponse(i, "ok", b)) =>
                stats' = b]_vars
    /\ []((monMounted /\ stats # <<>>) =>
            /\ \E i \in DOMAIN stats : stats[i].usage_percentage = MaxUsage(stats)
            /\ \A i \in DOMAIN stats :
                  /\ stats[i].usage_percentage <= MaxUsage(stats)
                  /\ BarWidth(stats[i]) <= 100
                  /\ stats[i].usage_percentage <= 100 =>
                        BarWidth(stats[i]) = stats[i].usage_percentage
                  /\ stats[i].usage_percentage > 100 => BarWidth(stats[i]) = 100)
C28_Witness ==
    /\ monMounted /\ StatsStored
    /\ Len(stats) = 2
    /\ stats[1].usage_percentage > 100
    /\ MaxUsage(stats) = stats[1].usage_percentage
    /\ BarWidth(stats[1]) = 100

\* C29: providersInfo changes only in the step that applies a 2xx providers
\* response: confirmations, mutation requests and responses and status timers
\* leave it as it is.
C29_OnlyFetchWritesProvidersInfo ==
    [][providersInfo' # providersInfo =>
          /\ last'.comp = "history" /\ last'.op = "loadDone"
          /\ last'.outcome = "ok" /\ last'.wrote]_vars
\* a DELETE was answered 2xx and the cleared provider is still listed active
C29_Witness ==
    /\ last.comp = "history" /\ last.op = "deleteDone" /\ last.outcome = "ok"
    /\ InfoActive(providersInfo, last.target)
    /\ actionStatus = "success"

\* the step just taken handled a fetch or a mutation request that failed
RequestFailed ==
    /\ last.op \in {"response", "loadDone", "summaryDone", "deleteDone", "resetDone"}
    /\ last.outcome \in FailOutcomes

\* C30: every failed fetch and every failed mutation request, network error
\* or non-2xx, of the four components is logged.
C30_EveryFailureLogged == RequestFailed => last.logged
\* the monitor drops a non-2xx stats response without a log call
C30_SilentFailure ==
    /\ RequestFailed /\ last.comp = "monitor" /\ last.outcome = "non2xx"
    /\ ~last.logged /\ ~last.wrote

\* C31: no fetch and no mutation lets a failure escape: whatever the outcome
\* or the body of the response the history tab has just processed, network
\* error, non-2xx, unparsable or with null fields, the tab is still mounted.
C31_NoUncaughtFault ==
    (last.comp = "history" /\ last.op \in {"loadDone", "deleteDone", "resetDone"})
        => histMounted
\* a providers body with a null entry was stored and the render threw
C31_RenderThrew ==
    /\ last.comp = "history" /\ last.op = "loadDone" /\ last.wrote
    /\ ~histMounted

\* requests of the mutation ClearOne(p) or ClearAll that are still awaited:
\* the DELETE or POST itself, or the refresh the mutation awaits after it
DeleteInFlight(p) ==
    {i \in DOMAIN histReqs :
        /\ histReqs[i].provider = p
        /\ histReqs[i].kind = "delete" \/ histReqs[i].cont = "clearOne"}
ResetInFlight ==
    {i \in DOMAIN histReqs : histReqs[i].kind = "reset" \/ histReqs[i].cont = "resetAll"}

\* C32: a mutation goes Idle -> Confirming -> InFlight -> {Success, Failure}
\* -> Idle: a declined confirmation sends nothing and changes none of
\* providersInfo, isLoading, clearingProvider, actionStatus, and the in-flight
\* mark of a mutation (clearingProvider = p for ClearOne(p), isLoading for
\* ClearAll) is taken back only by the step that handles its own response.
C32_MutationLifecycle ==
    [][/\ (last'.comp = "history" /\ last'.confirm = "declined") =>
             /\ last'.sent = "none"
             /\ histReqs' = histReqs
             /\ UNCHANGED <<providersInfo, histIsLoading, clearingProvider, actionStatus>>
       /\ \A p \in ProviderIds :
             (DeleteInFlight(p) # {} /\ clearingProvider = p /\ clearingProvider' # p) =>
                 /\ last'.op \in {"deleteDone", "loadDone"}
                 /\ last'.target = p
       /\ (ResetInFlight # {} /\ histIsLoading /\ ~histIsLoading') =>
             \/ last'.op = "resetDone"
             \/ /\ last'.op = "loadDone"
                /\ \E i \in ResetInFlight : histReqs' = RemoveAt(histReqs, i)]_vars
\* ClearOne of another provider took clearingProvider over while the DELETE
\* of the first was awaited
C32_MarkTakenOver ==
    /\ last.comp = "history" /\ last.op = "clearOne" /\ last.confirm = "accepted"
    /\ \E p \in ProviderIds \ {last.target} : DeleteInFlight(p) # {}
    /\ clearingProvider = last.target

\* a display name that is defined, and the id itself for an unregistered id
TotalName(id, name) == name # Undefined /\ (id \notin ProviderIds => name = id)
\* the ids of the active entries of a snapshot, in key order
ActiveIds(info) ==
    LET act == SelectSeq(info, LAMBDA e : e.active)
    IN [i \in DOMAIN act |-> act[i].provider]

\* C33: wherever a provider name is shown the lookup is total: the banner of
\* the restoration, the prompt of ClearOne and the prompt of ClearAll carry,
\* for every id they are about, a defined name, the id itself when the id is
\* not registered.
C33_DisplayNameTotal ==
    /\ restoreCalls # <<>> =>
          \A j \in DOMAIN restoreCalls[1].providers :
             TotalName(restoreCalls[1].providers[j], statusMessage.providerNames[j])
    /\ (last.comp = "history" /\ last.op = "clearOne") =>
          Len(last.named) = 1 /\ TotalName(last.target, last.named[1])
    /\ (ClearAllRun /\ last.confirm # "none") =>
          /\ Len(last.named) = Len(ActiveIds(providersInfo))
          /\ \A j \in DOMAIN last.named :
                TotalName(ActiveIds(providersInfo)[j], last.named[j])
\* the ClearAll prompt was accepted with an active unregistered provider that
\* it does not name
C33_NameMissingFromPrompt ==
    /\ ClearAllRun /\ last.confirm = "accepted"
    /\ \E j \in DOMAIN ActiveIds(providersInfo) : ActiveIds(providersInfo)[j] \notin ProviderIds
    /\ Len(last.named) < Len(ActiveIds(providersInfo))

\* C34: whenever the chip of ConversationStatusIndicator is visible, the
\* provider it displays is the current activeProvider, the one whose history
\* its clear button deletes.
C34_ChipShowsActiveProvider == IndicatorShown => summary.provider = activeProvider
\* the clear button was clicked while the chip displayed another provider
\* than the one the DELETE names
C34_ClearedAnotherProvider ==
    /\ last.comp = "indicator" /\ last.op = "clear"
    /\ IndicatorShown
    /\ last.target # summary.provider

\* the DELETE requests for provider p that are awaited
DeletesOf(p) ==
    {i \in DOMAIN histReqs : histReqs[i].kind = "delete" /\ histReqs[i].provider = p}

\* C35: while a DELETE for provider p is in flight the ClearOne control of p
\* stays disabled, so no two DELETEs for the same provider are in flight
\* together, whatever ClearOne operations run on other providers meanwhile.
C35_OneDeletePerProvider ==
    \A p \in ProviderIds :
       /\ DeletesOf(p) # {} => ~ClearOneEnabled(p)
       /\ Cardinality(DeletesOf(p)) <= 1
\* two DELETEs for the same provider are awaited
C35_TwoDeletesInFlight ==
    \E p \in ProviderIds : Cardinality(DeletesOf(p)) = 2

\* the view is fully idle
FullyIdle == clearingProvider = "" /\ ~histIsLoading /\ actionStatus = "idle"
\* the step is the handling of a response or the firing of a timeout
SystemStep == last'.op \in {"loadDone", "deleteDone", "resetDone", "timeout"}

\* C36: when every request is answered, every mutation started returns the
\* view to the fully idle state whatever its outcome: from the moment only
\* responses and timeouts are handled any more, the view comes to rest with
\* clearingProvider null, isLoading false and actionStatus idle.
C36_MutationsReturnToIdle == <>[][SystemStep]_vars => <>[]FullyIdle
\* a mutation failed and all that is left of it is the failure indicator
C36_FailureIndicatorPending ==
    /\ last.comp = "history" /\ last.op \in {"deleteDone", "resetDone"}
    /\ last.outcome \in FailOutcomes
    /\ actionStatus = "error" /\ histTimeouts # <<>> /\ histReqs = <<>>

\* the band a colour class stands for
Band(class) ==
    CASE class \in {"text-green-600", "bg-green-500"}   -> "green"
      [] class \in {"text-yellow-600", "bg-yellow-500"} -> "yellow"
      [] class \in {"text-red-600", "bg-red-500"}       -> "red"

\* C37: getUsageColor and getUsageBarColor put every usage in the same band,
\* green below 50, yellow from 50 to below 80, red from 80 on, and the
\* high-usage warning is shown exactly when some provider of the snapshot is
\* in the red band.
C37_WarningIffRed ==
    /\ \A i \in DOMAIN stats :
          LET u == stats[i].usage_percentage
          IN /\ Band(getUsageColor(u)) = Band(getUsageBarColor(u))
             /\ Band(getUsageColor(u)) =
                   IF u < 50 THEN "green" ELSE IF u < 80 THEN "yellow" ELSE "red"
    /\ WarningShown(stats) <=>
          \E i \in DOMAIN stats : Band(getUsageColor(stats[i].usage_percentage)) = "red"
\* a provider at exactly 80 is drawn red and no warning is shown
C37_RedWithoutWarning ==
    /\ monMounted
    /\ \E i \in DOMAIN stats :
          /\ stats[i].usage_percentage = 80 /\ stats[i].total_messages > 0
          /\ getUsageBarColor(stats[i].usage_percentage) = "bg-red-500"
    /\ ~WarningShown(stats)

\* the value assigned to `name` by the last line of the file that assigns
\* it, <<>> when no line does
RECURSIVE ValueIn(_, _)
ValueIn(file, name) ==
    IF file = <<>> THEN <<>>
    ELSE LET line == file[Len(file)]
         IN IF startsWith(line, name \o <<"=">>)
            THEN SubSeq(line, Len(name) + 2, Len(line))
            ELSE ValueIn(SubSeq(file, 1, Len(file) - 1), name)
WizardDone == wizPc = "done"

\* C38: for each of deepseek, qwen, kimi and doubao the key in the written
\* file is the key entered when it is non-empty and validateApiKey accepts
\* it, and otherwise the key the file held before the run: a key that fails
\* the format rule never replaces the existing one.
C38_OnlyValidKeysReplace ==
    WizardDone =>
       \A i \in DOMAIN WizProviders :
          LET provider == WizProviders[i]
              key == answers[i]
          IN ValueIn(envFile, KeyVar(provider)) =
                IF key # <<>> /\ validateApiKey(provider, key)
                THEN key
                ELSE ValueIn(envAtStart, KeyVar(provider))
\* a Doubao key of three characters has replaced the key the file held
C38_ShortDoubaoKeyWritten ==
    /\ WizardDone
    /\ answers[4] = WrongKey /\ ~validateApiKey("doubao", answers[4])
    /\ ValueIn(envAtStart, DOUBAO_API_KEY) = OldDoubaoKey
    /\ ValueIn(envFile, DOUBAO_API_KEY) = WrongKey

\* the NAME=value assignments of a file: the lines that are no comment and
\* have a non-empty name before their first "=", as pairs <<NAME, value>>
FirstEquals(line) ==
    LET es == {k \in DOMAIN line : line[k] = "="}
    IN IF es = {} THEN 0 ELSE CHOOSE k \in es : \A j \in es : k <= j
AssignmentsOf(file) ==
    {<<SubSeq(file[i], 1, FirstEquals(file[i]) - 1),
       SubSeq(file[i], FirstEquals(file[i]) + 1, Len(file[i]))>> :
        i \in {j \in DOMAIN file : FirstEquals(file[j]) > 1 /\ file[j][1] # "#"}}
\* the variable of a provider whose entered key stands in the written file
ReplacedByEnteredKey(name) ==
    \E i \in DOMAIN WizProviders :
       /\ name = KeyVar(WizProviders[i])
       /\ answers[i] # <<>>
       /\ ValueIn(envFile, name) = answers[i]

\* C39: the wizard preserves the existing configuration: every NAME=value
\* assignment of the file before the run that is not replaced by an entered
\* key is in the written file with the same value, whatever characters the
\* name has (digits and lower-case letters included) and whatever the value
\* (the empty one included).
C39_ExistingAssignmentsKept ==
    WizardDone =>
       \A a \in AssignmentsOf(envAtStart) :
          ~ReplacedByEnteredKey(a[1]) => a \in AssignmentsOf(envFile)
\* the file assigned S3 before the run and no line of the written file does
C39_DigitNameDropped ==
    /\ WizardDone
    /\ <<<<"S", "3">>, <<"b">>>> \in AssignmentsOf(envAtStart)
    /\ \A a \in AssignmentsOf(envFile) : a[1] # <<"S", "3">>
    /\ <<<<"P", "O", "R", "T">>, <<"8", "0">>>> \in AssignmentsOf(envFile)

====
